---- MODULE Spec2Model ----
(***************************************************************************)
(* Analysis controller of src/components/url-processor.tsx (URLProcessor). *)
(*                                                                         *)
(* One step of the model is one run-to-completion task of the browser's    *)
(* event loop: a user event handler, a timer callback, or the continuation *)
(* of an awaited record-store query, each together with the promise        *)
(* continuations (microtasks) it releases.  Timers and query latencies are *)
(* not ordered against each other: every interleaving of tasks is a        *)
(* behaviour.                                                              *)
(*                                                                         *)
(* A URL is a sequence of text fragments (tokens); String.includes is      *)
(* containment of a contiguous run of tokens.                              *)
(***************************************************************************)
EXTENDS Integers, Sequences, FiniteSets, TLC

(***************************************************************************)
(* Bounds of the model                                                     *)
(***************************************************************************)
\* Attempt ceiling of both poll loops.  The source sets 300
\* (url-processor.tsx:315 and :388); the model scales it down.
maxAttempts == 2
\* Period of the "still waiting" log lines of the inline wait.  The source
\* uses 15 (url-processor.tsx:417 and :447); the model scales it down.
LogEvery == 2
\* Number of submits in one behaviour.
MaxRequests == 2
\* Queries that may be awaiting their response at once, over all poll loops,
\* when the user may submit again.
MaxInFlight == 1
\* The same when the user submits once: a tick may then fire while the
\* query of the tick before it is still awaiting its response.
MaxOverlap == 2
\* Nominal step waits longer than this many ms are cut to it: past its
\* fourth 200 ms check the wait loop only repeats itself.
MaxNominalMs == 1000
\* Only the last LogWindow entries of the log list are kept.
LogWindow == 1
\* Longest URL (in tokens) of the classification inputs.
MaxUrlLen == 4

(***************************************************************************)
(* Program constants                                                       *)
(***************************************************************************)
PollIntervalMs == 2000
checkInterval == 200
FAST_MODE_STEP_DURATION == 800
FastTotalMs == 10000
StartDelayMs == 500
FastProgressStep == 20
NormalProgressStep == 5
FastProgressInterval == 50
ProgressDivisor == 20
JumpBelow == 80
BreakAfter == 2
NoProgress == -1

VARIABLES
    url,               \* useState url: the text of the input field
    isProcessing,      \* useState isProcessing
    contentType,       \* useState contentType
    currentStep,       \* useState currentStep
    steps,             \* useState steps
    scanProgress,      \* useState scanProgress
    logs,              \* useState logs (last LogWindow entries)
    reportData,        \* useState reportData
    backendResponse,   \* useState backendResponse
    resultsReadyRef,   \* resultsReadyRef.current
    pendingResultsRef, \* pendingResultsRef.current
    proc,              \* the running processURL: position and closure
    bg,                \* per request: the loop of startPollingForResults
    inl,               \* per request: the loop of pollDatabaseForResults
    nreq,              \* number of requests submitted so far
    rows,              \* the record store: most recent row per url
    posts,             \* urls whose POST the backend has not picked up
    hist,              \* history of the current request (see NoHist)
    sinceReady,        \* history: ms of animation waits begun since the flag was seen
    markdown,          \* the text handed to parseMarkdownReport
    report             \* what parseMarkdownReport returned for it

vars == <<url, isProcessing, contentType, currentStep, steps, scanProgress, logs,
          reportData, backendResponse, resultsReadyRef, pendingResultsRef, proc,
          bg, inl, nreq, rows, posts, hist, sinceReady, markdown, report>>

uiVars == <<url, isProcessing, contentType, currentStep, steps, scanProgress,
            reportData, backendResponse>>

Min(a, b) == IF a < b THEN a ELSE b

CeilDiv(a, b) == (a + b - 1) \div b

(***************************************************************************)
(* URLs                                                                    *)
(***************************************************************************)
Tokens == {"instagram.com/", "p", "reel", "youtu.be", "youtube.com", "x", " "}

ReelUrl == <<"instagram.com/", "reel", "x">>
PostUrl == <<"instagram.com/", "p", "x">>
TubeUrl == <<"youtu.be", "x">>
BlogUrl == <<"x">>
BlankUrl == <<" ">>

\* What the user types: pages and posts, or videos.
Urls == {PostUrl, BlogUrl}
VideoUrls == {ReelUrl, TubeUrl}

\* String.prototype.includes
Includes(s, pat) ==
    \E k \in 0..(Len(s) - Len(pat)) : SubSeq(s, k + 1, k + Len(pat)) = pat

RECURSIVE TrimStart(_)
TrimStart(s) == IF s # <<>> /\ Head(s) = " " THEN TrimStart(Tail(s)) ELSE s

RECURSIVE TrimEnd(_)
TrimEnd(s) ==
    IF s # <<>> /\ s[Len(s)] = " " THEN TrimEnd(SubSeq(s, 1, Len(s) - 1)) ELSE s

\* The URL is tested as typed.
NoTrim(s) == s

\* String.prototype.trim
Trim(s) == TrimEnd(TrimStart(s))

\* The post pattern is tried before the reel pattern.
identifyContentTypePostFirst(u) ==
    IF Includes(u, <<"instagram.com/", "p">>) THEN "instagram-post"
    ELSE IF Includes(u, <<"instagram.com/", "reel">>) THEN "instagram-reel"
    ELSE IF Includes(u, <<"youtu.be">>) \/ Includes(u, <<"youtube.com">>)
         THEN "youtube-video"
    ELSE "blog-website"

identifyContentType(u) ==
    IF Includes(u, <<"instagram.com/", "reel">>) THEN "instagram-reel"
    ELSE IF Includes(u, <<"instagram.com/", "p">>) THEN "instagram-post"
    ELSE IF Includes(u, <<"youtu.be">>) \/ Includes(u, <<"youtube.com">>)
         THEN "youtube-video"
    ELSE "blog-website"

(***************************************************************************)
(* Steps                                                                   *)
(***************************************************************************)
Step(id) == [id |-> id, completed |-> FALSE, active |-> FALSE,
             progress |-> IF id = "scanning" THEN 0 ELSE NoProgress]

baseSteps == <<Step("parsing"), Step("identifying")>>

\* The post variant runs OCR before the download.
generateStepsSwapped(type) ==
    IF type = "instagram-reel" \/ type = "youtube-video"
    THEN baseSteps \o <<Step("downloading"), Step("splitting"), Step("ocr"),
                        Step("scanning"), Step("captions"), Step("audio"),
                        Step("stt"), Step("report")>>
    ELSE IF type = "instagram-post"
    THEN baseSteps \o <<Step("ocr"), Step("downloading"), Step("captions"),
                        Step("report")>>
    ELSE baseSteps \o <<Step("crawling"), Step("analyzing"), Step("images"),
                        Step("report")>>

generateSteps(type) ==
    IF type = "instagram-reel" \/ type = "youtube-video"
    THEN baseSteps \o <<Step("downloading"), Step("splitting"), Step("ocr"),
                        Step("scanning"), Step("captions"), Step("audio"),
                        Step("stt"), Step("report")>>
    ELSE IF type = "instagram-post"
    THEN baseSteps \o <<Step("downloading"), Step("ocr"), Step("captions"),
                        Step("report")>>
    ELSE baseSteps \o <<Step("crawling"), Step("analyzing"), Step("images"),
                        Step("report")>>

getStepDuration(stepId) ==
    CASE stepId = "downloading" -> 25000
      [] stepId = "splitting"   -> 40000
      [] stepId = "ocr"         -> 50000
      [] stepId = "scanning"    -> 60000
      [] stepId = "audio"       -> 30000
      [] stepId = "stt"         -> 45000
      [] stepId = "crawling"    -> 35000
      [] stepId = "analyzing"   -> 40000
      [] stepId = "report"      -> 20000
      [] stepId = "parsing"     -> 5000
      [] stepId = "identifying" -> 3000
      [] stepId = "captions"    -> 12000
      [] stepId = "images"      -> 15000
      [] OTHER                  -> 8000

(***************************************************************************)
(* Logs                                                                    *)
(***************************************************************************)
Log(msg, arg, type) == [msg |-> msg, arg |-> arg, type |-> type]

RECURSIVE addLogs(_, _)
\* addLog, applied to each entry of ms in turn
addLogs(lg, ms) ==
    IF ms = <<>> THEN lg
    ELSE LET l == Append(lg, Head(ms))
         IN addLogs(IF Len(l) > LogWindow THEN Tail(l) ELSE l, Tail(ms))

(***************************************************************************)
(* Values                                                                  *)
(***************************************************************************)
Null == [kind |-> "null", url |-> <<>>]
\* parseMarkdownReport(content.result) for the row of url u
ParsedReport(u) == [kind |-> "report", url |-> u]
\* the object the poll loops build around a parsed report
Wrapped(u) == [kind |-> "wrapped", url |-> u]
\* a url_content payload without a result field
RawContent(u) == [kind |-> "raw", url |-> u]

NoRow == [status |-> "none", content |-> "null"]

IdleProc == [pc |-> "idle", ids |-> <<>>, url |-> <<>>, captured |-> 0,
             i |-> 0, j |-> 0, iterations |-> 0,
             progress |-> 0, progressStep |-> 0, progressInterval |-> 0]

\* A poll loop: its closure (url, attempts), its interval timer (active), the
\* number of its queries awaiting a response, and whether its promise is
\* resolved (inline wait only).
NoLoop == [url |-> <<>>, active |-> FALSE, attempts |-> 0, inflight |-> 0,
           resolved |-> FALSE]

\* History since the last submit:
\*   lastTerminal  the terminal status a background poll observed last
\*   writer        the request whose background loop wrote the refs last
\*   stops         clearInterval calls of this request's background loop
\*   bgSeen        the terminal status this request's background loop observed
\*   inlSeen       the terminal status this request's inline wait observed
\*   queried       the inline wait of this request has sent a query since
\*                 this request's background loop observed an error row
\*   post          the promise of this request's fetch: "none" before any
\*                 submit, then "pending", "resolved" or "rejected"
NoHist == [lastTerminal |-> "none", writer |-> 0, stops |-> 0,
           bgSeen |-> "none", inlSeen |-> "none", queried |-> FALSE,
           post |-> "none"]

Init ==
    /\ url = <<>>
    /\ isProcessing = FALSE
    /\ contentType = "null"
    /\ currentStep = 0
    /\ steps = <<>>
    /\ scanProgress = 0
    /\ logs = <<>>
    /\ reportData = Null
    /\ backendResponse = Null
    /\ resultsReadyRef = FALSE
    /\ pendingResultsRef = Null
    /\ proc = IdleProc
    /\ bg = [r \in 1..MaxRequests |-> NoLoop]
    /\ inl = [r \in 1..MaxRequests |-> NoLoop]
    /\ nreq = 0
    /\ rows = <<>>
    /\ posts = {}
    /\ hist = NoHist
    /\ sinceReady = 0
    /\ markdown = <<>>
    /\ report = Null

(***************************************************************************)
(* processURL: publishing the outcome (lines 607-631)                      *)
(***************************************************************************)
\* The continuation of processURL once pollDatabaseForResults has resolved
\* with backendData, appended to the log lg.
Publish(backendData, lg) ==
    IF backendData.kind = "wrapped"
    THEN [reportData |-> ParsedReport(backendData.url),
          backendResponse |-> backendData,
          logs |-> addLogs(lg, <<Log("completed", "", "success"),
                                 Log("reportGenerated", "", "success"),
                                 Log("message", "", "success")>>)]
    ELSE IF backendData # Null
    THEN [reportData |-> backendData,
          backendResponse |-> backendData,
          logs |-> addLogs(lg, <<Log("completed", "", "success"),
                                 Log("reportGenerated", "", "success")>>)]
    ELSE [reportData |-> reportData,
          backendResponse |-> backendResponse,
          logs |-> addLogs(lg, <<Log("compilingFinal", "", "info")>>)]

(***************************************************************************)
(* runSimulationMode (lines 635-725)                                       *)
(***************************************************************************)
\* The steps already walked stay active.
StepsAtTrail(st, i) ==
    [k \in 1..Len(st) |->
        [st[k] EXCEPT !.active = (k - 1 <= i), !.completed = (k - 1 < i)]]

\* setSteps of lines 661-667: step i (0-based) active, the earlier completed
StepsAt(st, i) ==
    [k \in 1..Len(st) |->
        [st[k] EXCEPT !.active = (k - 1 = i), !.completed = (k - 1 < i)]]

\* setSteps of lines 680-684 and 689-693
SetProgress(st, p) ==
    [k \in 1..Len(st) |->
        IF st[k].id = "scanning" THEN [st[k] EXCEPT !.progress = p] ELSE st[k]]

\* Every step is marked completed; the active marks stay.
AllCompletedOnly(st) ==
    [k \in 1..Len(st) |-> [st[k] EXCEPT !.completed = TRUE]]

\* setSteps of line 716
AllCompleted(st) ==
    [k \in 1..Len(st) |-> [st[k] EXCEPT !.completed = TRUE, !.active = FALSE]]

\* Duration of step i as computed at lines 646-657
StepDuration(i) ==
    LET remainingSteps == Len(proc.ids) - i
    IN IF resultsReadyRef
       THEN Min(FAST_MODE_STEP_DURATION, FastTotalMs \div remainingSteps)
       ELSE getStepDuration(proc.ids[i + 1])

\* The history variable after a wait of ms milliseconds has been started.
Waited(ms) ==
    IF resultsReadyRef THEN Min(sinceReady + ms, FastTotalMs + 1) ELSE 0

\* The head of iteration i of the for loop (lines 645-703), up to its first
\* await, after the log lg and the steps st.
EnterStep(i, st, sp, lg) ==
    LET id == proc.ids[i + 1]
        stepDuration == StepDuration(i)
        lg1 == addLogs(lg,
                 (IF resultsReadyRef /\ i = proc.captured
                  THEN <<Log("finishing", "", "success")>> ELSE <<>>)
                 \o <<Log("step", id, "info")>>)
        fastMode == resultsReadyRef
        progressInterval ==
            IF fastMode THEN FastProgressInterval
            ELSE stepDuration \div ProgressDivisor
        base == [proc |-> proc, steps |-> StepsAt(st, i), currentStep |-> i,
                 scanProgress |-> sp, logs |-> lg1, reportData |-> reportData,
                 backendResponse |-> backendResponse, inl |-> inl,
                 sinceReady |-> 0]
    IN IF id = "scanning"
       THEN [base EXCEPT
               !.proc = [proc EXCEPT !.pc = "scan", !.i = i, !.progress = 0,
                           !.progressStep = IF fastMode THEN FastProgressStep
                                            ELSE NormalProgressStep,
                           !.progressInterval = progressInterval],
               !.sinceReady = Waited(progressInterval)]
       ELSE [base EXCEPT
               !.proc = [proc EXCEPT !.pc = "wait", !.i = i, !.j = 0,
                           !.iterations =
                               CeilDiv(Min(stepDuration, MaxNominalMs), checkInterval)],
               !.sinceReady = Waited(checkInterval)]

\* The entry of pollDatabaseForResults (lines 382-394) and, when it returns
\* at once, the rest of processURL.
FinalCheck(st, sp, lg) ==
    LET base == [proc |-> [IdleProc EXCEPT !.pc = "done", !.url = proc.url],
                 steps |-> st,
                 currentStep |-> currentStep, scanProgress |-> sp, logs |-> lg,
                 reportData |-> reportData, backendResponse |-> backendResponse,
                 inl |-> inl, sinceReady |-> 0]
    IN IF resultsReadyRef /\ pendingResultsRef # Null
       THEN LET p == Publish(pendingResultsRef, lg)
            IN [base EXCEPT !.reportData = p.reportData,
                            !.backendResponse = p.backendResponse,
                            !.logs = p.logs]
       ELSE [base EXCEPT
               !.proc = [IdleProc EXCEPT !.pc = "inline", !.url = proc.url],
               !.logs = addLogs(lg, <<Log("compilingSearch", "", "info")>>),
               !.inl = [inl EXCEPT ![nreq] =
                          [NoLoop EXCEPT !.url = proc.url, !.active = TRUE]]]

\* The steps are left as the last iteration set them.
FinishUnmarked(st, sp, lg) ==
    FinalCheck(st, sp,
        addLogs(lg, IF resultsReadyRef
                    THEN <<Log("reportReady", "", "success")>>
                    ELSE <<Log("compiling", "", "info"),
                           Log("finalizing", "", "info"),
                           Log("keepOpen", "", "warning")>>))

\* The end of runSimulationMode (lines 715-724), then processURL line 608.
Finish(st, sp, lg) ==
    FinalCheck(AllCompleted(st), sp,
        addLogs(lg, IF resultsReadyRef
                    THEN <<Log("reportReady", "", "success")>>
                    ELSE <<Log("compiling", "", "info"),
                           Log("finalizing", "", "info"),
                           Log("keepOpen", "", "warning")>>))

\* The end of iteration i (line 712) and what follows it.
LeaveStep(i, st, sp, lg) ==
    LET lg1 == addLogs(lg, <<Log("stepDone", proc.ids[i + 1], "success")>>)
    IN IF i + 1 < Len(proc.ids)
       THEN EnterStep(i + 1, st, sp, lg1)
       ELSE Finish(st, sp, lg1)

\* One task of the animation ends in the state r.
Animate(r) ==
    /\ proc' = r.proc
    /\ steps' = r.steps
    /\ currentStep' = r.currentStep
    /\ scanProgress' = r.scanProgress
    /\ logs' = r.logs
    /\ reportData' = r.reportData
    /\ backendResponse' = r.backendResponse
    /\ inl' = r.inl
    /\ sinceReady' = r.sinceReady
    /\ UNCHANGED <<url, isProcessing, contentType, resultsReadyRef,
                   pendingResultsRef, bg, nreq, rows, posts, hist, markdown, report>>

\* The 500 ms timer of line 636 fires.
SimStart ==
    /\ proc.pc = "start"
    /\ Animate(IF Len(proc.ids) > 0
               THEN EnterStep(0, steps, scanProgress, logs)
               ELSE Finish(steps, scanProgress, logs))

\* A 200 ms timer of line 703 fires.
SimWait ==
    /\ proc.pc = "wait"
    /\ Animate(IF (resultsReadyRef /\ proc.j > BreakAfter)
                  \/ proc.j + 1 >= proc.iterations
               THEN LeaveStep(proc.i, steps, scanProgress, logs)
               ELSE [proc |-> [proc EXCEPT !.j = proc.j + 1], steps |-> steps,
                     currentStep |-> currentStep, scanProgress |-> scanProgress,
                     logs |-> logs, reportData |-> reportData,
                     backendResponse |-> backendResponse, inl |-> inl,
                     sinceReady |-> Waited(checkInterval)])

\* A progress timer of line 678 fires.
SimScan ==
    /\ proc.pc = "scan"
    /\ LET progress == proc.progress
           st1 == SetProgress(steps, progress)
       IN Animate(
            IF resultsReadyRef /\ progress < JumpBelow
            THEN LeaveStep(proc.i, SetProgress(st1, 100), 100, logs)
            ELSE IF progress + proc.progressStep > 100
            THEN LeaveStep(proc.i, st1, progress, logs)
            ELSE [proc |-> [proc EXCEPT !.progress = progress + proc.progressStep],
                  steps |-> st1, currentStep |-> currentStep,
                  scanProgress |-> progress, logs |-> logs,
                  reportData |-> reportData,
                  backendResponse |-> backendResponse, inl |-> inl,
                  sinceReady |-> Waited(proc.progressInterval)])

(***************************************************************************)
(* processURL (lines 570-604) and resetForm (lines 732-742)                *)
(***************************************************************************)
StepIds(st) == [k \in 1..Len(st) |-> st[k].id]

\* The pending result survives the reset.
ResetRefsKeepPending == [ready |-> FALSE, pending |-> pendingResultsRef]

\* The refs after lines 580-582
ResetRefs == [ready |-> FALSE, pending |-> Null]

\* handleSubmit: processURL up to the first await of runSimulationMode.
Submit ==
    /\ ~isProcessing
    /\ nreq < MaxRequests
    /\ IF Trim(url) = <<>>
       THEN UNCHANGED vars
       ELSE LET type == identifyContentType(url)
                processSteps == generateSteps(type)
            IN /\ isProcessing' = TRUE
               /\ currentStep' = 0
               /\ scanProgress' = 0
               /\ reportData' = Null
               /\ backendResponse' = Null
               /\ resultsReadyRef' = ResetRefs.ready
               /\ pendingResultsRef' = ResetRefs.pending
               /\ contentType' = type
               /\ steps' = processSteps
               /\ logs' = addLogs(<<>>, <<Log("init", "", "info"),
                                          Log("detected", type, "success"),
                                          Log("generated", "", "info"),
                                          Log("sending", "", "info"),
                                          Log("sent", "", "success")>>)
               /\ posts' = posts \cup {url}
               /\ rows' = IF url \in DOMAIN rows THEN rows ELSE (url :> NoRow) @@ rows
               /\ nreq' = nreq + 1
               /\ bg' = [bg EXCEPT ![nreq + 1] =
                           [NoLoop EXCEPT !.url = url, !.active = TRUE]]
               /\ proc' = [IdleProc EXCEPT !.pc = "start", !.url = url,
                              !.ids = StepIds(processSteps),
                              !.captured = currentStep]
               /\ hist' = [NoHist EXCEPT !.post = "pending"]
               /\ sinceReady' = 0
               /\ UNCHANGED <<url, inl, markdown, report>>

\* The "Process Another URL" button, rendered with the completion panel
\* (lines 1212 and 1523-1529).
ResetForm ==
    /\ isProcessing
    /\ steps # <<>>
    /\ \A k \in 1..Len(steps) : steps[k].completed
    /\ reportData # Null
    /\ url' = <<>>
    /\ isProcessing' = FALSE
    /\ contentType' = "null"
    /\ currentStep' = 0
    /\ steps' = <<>>
    /\ scanProgress' = 0
    /\ logs' = <<>>
    /\ reportData' = Null
    /\ backendResponse' = Null
    /\ UNCHANGED <<resultsReadyRef, pendingResultsRef, proc, bg, inl, nreq, rows,
                   posts, hist, sinceReady, markdown, report>>

(***************************************************************************)
(* The record store and the backend                                        *)
(***************************************************************************)
\* What one query for url u can answer: the PGRST116 error of .single() when
\* no row matches, else the most recent row; or a failure of the transport,
\* as another error or as an exception.
Responses(u) ==
    IF u \notin DOMAIN rows THEN {} ELSE
    (IF rows[u].status = "none"
     THEN {[kind |-> "PGRST116", status |-> "none", content |-> "null"]}
     ELSE {[kind |-> "row", status |-> rows[u].status, content |-> rows[u].content]})
    \cup {[kind |-> "error", status |-> "none", content |-> "null"],
          [kind |-> "throw", status |-> "none", content |-> "null"]}

\* The handler given to .catch at lines 301-303 runs on the log lg: its
\* body is a comment.
CatchWarns(lg) == addLogs(lg, <<Log("sendError", "", "warning")>>)

CatchHandler(lg) == lg

\* The promise of the fetch of line 294 settles: it resolves (no handler is
\* attached) or rejects (the handler of .catch runs).
PostSettles(outcome) ==
    /\ hist.post = "pending"
    /\ hist' = [hist EXCEPT !.post = outcome]
    /\ logs' = IF outcome = "rejected" THEN CatchHandler(logs) ELSE logs
    /\ UNCHANGED <<uiVars, resultsReadyRef, pendingResultsRef, proc, bg, inl,
                   nreq, rows, posts, sinceReady, markdown, report>>

\* The backend picks up a POST and inserts the row of the request.
BackendAccept(u) ==
    /\ u \in posts
    /\ posts' = posts \ {u}
    /\ rows' = [rows EXCEPT ![u] = [status |-> "processing", content |-> "null"]]
    /\ UNCHANGED <<uiVars, logs, resultsReadyRef, pendingResultsRef, proc, bg, inl,
                   nreq, hist, sinceReady, markdown, report>>

\* The backend stores its result, with or without a result text.
BackendComplete(u, c) ==
    /\ u \in DOMAIN rows
    /\ rows[u].status = "processing"
    /\ rows' = [rows EXCEPT ![u] = [status |-> "completed", content |-> c]]
    /\ UNCHANGED <<uiVars, logs, resultsReadyRef, pendingResultsRef, proc, bg, inl,
                   nreq, posts, hist, sinceReady, markdown, report>>

\* The backend records a failure.
BackendFail(u) ==
    /\ u \in DOMAIN rows
    /\ rows[u].status = "processing"
    /\ rows' = [rows EXCEPT ![u] = [status |-> "error", content |-> "null"]]
    /\ UNCHANGED <<uiVars, logs, resultsReadyRef, pendingResultsRef, proc, bg, inl,
                   nreq, posts, hist, sinceReady, markdown, report>>

(***************************************************************************)
(* Poll loops                                                              *)
(***************************************************************************)
\* attempts++ on a counter that is only compared with maxAttempts and taken
\* modulo LogEvery: past maxAttempts + LogEvery it is folded back by LogEvery.
Bump(a) == IF a < maxAttempts + LogEvery THEN a + 1 ELSE a + 1 - LogEvery

\* clearInterval(pollInterval)
Cleared(l) == [l EXCEPT !.active = FALSE]

\* A loop whose timer is cleared and whose queries have all answered can
\* never run again: its closure is dropped.
Gc(l) == IF ~l.active /\ l.inflight = 0 THEN NoLoop ELSE l

RECURSIVE InFlightOf(_, _)
InFlightOf(loops, n) ==
    IF n = 0 THEN 0 ELSE loops[n].inflight + InFlightOf(loops, n - 1)

\* Queries awaiting their response
InFlight == InFlightOf(bg, MaxRequests) + InFlightOf(inl, MaxRequests)

\* What a poll builds from a completed row of url u (lines 346-358, 432-444)
ResultOf(u, content) ==
    IF content = "report" THEN Wrapped(u) ELSE RawContent(u)

HasCompleted(resp) ==
    resp.kind = "row" /\ resp.status = "completed" /\ resp.content # "null"

HasError(resp) == resp.kind = "row" /\ resp.status = "error"

\* The ceiling test of lines 370-372 is reached on every answer.
BgStopsCeilingAlways(l, resp) ==
    (IF HasCompleted(resp) \/ HasError(resp) THEN 1 ELSE 0)
    + (IF l.attempts >= maxAttempts THEN 1 ELSE 0)

\* Lines 331-372 on the answer resp: how many times the loop l calls
\* clearInterval.  An error answer returns at line 334 or 337 and an
\* exception leaves the try block, before any clearInterval.
BgStops(l, resp) ==
    IF resp.kind # "row" THEN 0
    ELSE (IF HasCompleted(resp) \/ HasError(resp) THEN 1 ELSE 0)
         + (IF l.attempts >= maxAttempts THEN 1 ELSE 0)

\* The interval of line 318 fires: attempts++ and the query is sent.
BgTick(r, n) ==
    /\ bg[r].active
    /\ InFlight < n
    /\ bg' = [bg EXCEPT ![r].attempts = Bump(@), ![r].inflight = @ + 1]
    /\ UNCHANGED <<uiVars, logs, resultsReadyRef, pendingResultsRef, proc, inl,
                   nreq, rows, posts, hist, sinceReady, markdown, report>>

\* The flag is raised for a completed row without storing the result.
BgHandoffFlagOnly(l, resp) ==
    IF HasCompleted(resp)
    THEN [ready |-> TRUE, pending |-> pendingResultsRef,
          log |-> <<Log("resultsReady", "", "success")>>]
    ELSE IF HasError(resp)
    THEN [ready |-> TRUE, pending |-> Null,
          log |-> <<Log("failed", "", "warning")>>]
    ELSE [ready |-> resultsReadyRef, pending |-> pendingResultsRef, log |-> <<>>]

\* The refs after lines 341-367 have run on the row resp for the loop l.
BgHandoff(l, resp) ==
    IF HasCompleted(resp)
    THEN [ready |-> TRUE, pending |-> ResultOf(l.url, resp.content),
          log |-> <<Log("resultsReady", "", "success")>>]
    ELSE IF HasError(resp)
    THEN [ready |-> TRUE, pending |-> Null,
          log |-> <<Log("failed", "", "warning")>>]
    ELSE [ready |-> resultsReadyRef, pending |-> pendingResultsRef, log |-> <<>>]

\* The query of a tick answers resp: lines 331-375.
BgDeliver(r, resp) ==
    /\ bg[r].inflight > 0
    /\ LET l == [bg[r] EXCEPT !.inflight = @ - 1]
           terminal == HasCompleted(resp) \/ HasError(resp)
           n == BgStops(l, resp)
           h == BgHandoff(l, resp)
       IN /\ bg' = [bg EXCEPT ![r] = Gc(IF n > 0 THEN Cleared(l) ELSE l)]
          /\ logs' = addLogs(logs, h.log)
          /\ resultsReadyRef' = h.ready
          /\ pendingResultsRef' = h.pending
          /\ hist' = IF terminal
                     THEN [hist EXCEPT
                             !.lastTerminal = resp.status,
                             !.writer = r,
                             !.bgSeen = IF r = nreq THEN resp.status ELSE @,
                             !.queried = IF r = nreq /\ HasError(resp)
                                         THEN FALSE ELSE @,
                             !.stops = IF r = nreq THEN Min(@ + n, 3) ELSE @]
                     ELSE [hist EXCEPT
                             !.stops = IF r = nreq THEN Min(@ + n, 3) ELSE @]
    /\ UNCHANGED <<uiVars, proc, inl, nreq, rows, posts, sinceReady, markdown, report>>

\* resolve(value) of the promise of the inline wait, whose loop becomes l,
\* after the log lg of the task: the first resolve resumes processURL
\* (lines 610-627), later ones do nothing.
Resolve(r, l, value, lg) ==
    IF l.resolved
    THEN /\ inl' = [inl EXCEPT ![r] = Gc(l)]
         /\ logs' = lg
         /\ UNCHANGED <<proc, reportData, backendResponse>>
    ELSE LET p == Publish(value, lg)
         IN /\ inl' = [inl EXCEPT ![r] = Gc([l EXCEPT !.resolved = TRUE])]
            /\ logs' = p.logs
            /\ reportData' = p.reportData
            /\ backendResponse' = p.backendResponse
            /\ proc' = [proc EXCEPT !.pc = "done"]

\* The interval of line 394 fires: lines 395-412.
InlineTick(r, n) ==
    /\ inl[r].active
    /\ IF resultsReadyRef
       THEN /\ Resolve(r, Cleared(inl[r]), pendingResultsRef, logs)
            /\ UNCHANGED hist
       ELSE /\ InFlight < n
            /\ inl' = [inl EXCEPT ![r].attempts = Bump(@), ![r].inflight = @ + 1]
            /\ hist' = [hist EXCEPT !.queried =
                          @ \/ (r = nreq /\ hist.bgSeen = "error")]
            /\ UNCHANGED <<logs, proc, reportData, backendResponse>>
    /\ UNCHANGED <<url, isProcessing, contentType, currentStep, steps, scanProgress,
                   resultsReadyRef, pendingResultsRef, bg, nreq, rows, posts,
                   sinceReady, markdown, report>>

\* The periodic log line of lines 417-419 and 447-449
Periodic(l, msg) ==
    IF l.attempts % LogEvery = 0 THEN <<Log(msg, "", "info")>> ELSE <<>>

\* The query of an inline tick answers resp: lines 414-465.
InlineDeliver(r, resp) ==
    /\ inl[r].inflight > 0
    /\ LET l == [inl[r] EXCEPT !.inflight = @ - 1]
           timeout == l.attempts >= maxAttempts
           lt == IF timeout THEN <<Log("timeout", "", "warning")>> ELSE <<>>
       IN IF resp.kind = "PGRST116"
          THEN /\ inl' = [inl EXCEPT ![r] = Gc(l)]
               /\ logs' = addLogs(logs, Periodic(l, "stillWaiting"))
               /\ UNCHANGED <<proc, reportData, backendResponse, hist>>
          ELSE IF resp.kind # "row"
          THEN /\ inl' = [inl EXCEPT ![r] = Gc(l)]
               /\ UNCHANGED <<logs, proc, reportData, backendResponse, hist>>
          ELSE IF HasCompleted(resp)
          THEN /\ Resolve(r, Cleared(l), ResultOf(l.url, resp.content),
                          addLogs(logs, <<Log("found", "", "success")>> \o lt))
               /\ hist' = [hist EXCEPT !.inlSeen = IF r = nreq THEN "completed" ELSE @]
          ELSE IF HasError(resp)
          THEN /\ Resolve(r, Cleared(l), Null,
                          addLogs(logs, <<Log("failed", "", "warning")>> \o lt))
               /\ hist' = [hist EXCEPT !.inlSeen = IF r = nreq THEN "error" ELSE @]
          ELSE LET lp == IF resp.status = "processing"
                         THEN Periodic(l, "inProgress") ELSE <<>>
               IN /\ IF timeout
                     THEN Resolve(r, Cleared(l), Null, addLogs(logs, lp \o lt))
                     ELSE /\ inl' = [inl EXCEPT ![r] = Gc(l)]
                          /\ logs' = addLogs(logs, lp)
                          /\ UNCHANGED <<proc, reportData, backendResponse>>
                  /\ UNCHANGED hist
    /\ UNCHANGED <<url, isProcessing, contentType, currentStep, steps, scanProgress,
                   resultsReadyRef, pendingResultsRef, bg, nreq, rows, posts,
                   sinceReady, markdown, report>>

\* onChange of the input field
SetUrl(u) ==
    /\ ~isProcessing
    /\ url # u
    /\ url' = u
    /\ UNCHANGED <<isProcessing, contentType, currentStep, steps, scanProgress, logs,
                   reportData, backendResponse, resultsReadyRef, pendingResultsRef,
                   proc, bg, inl, nreq, rows, posts, hist, sinceReady, markdown, report>>

\* The tasks of one request, whatever the URL, with at most n queries
\* awaiting their response.
Core(n) ==
    \/ Submit
    \/ SimStart
    \/ SimWait
    \/ \E r \in 1..MaxRequests : BgTick(r, n)
    \/ \E r \in 1..MaxRequests : \E resp \in Responses(bg[r].url) : BgDeliver(r, resp)
    \/ \E r \in 1..MaxRequests : InlineTick(r, n)
    \/ \E r \in 1..MaxRequests : \E resp \in Responses(inl[r].url) : InlineDeliver(r, resp)
    \/ \E u \in posts : BackendAccept(u)
    \/ \E u \in DOMAIN rows : \E c \in {"report", "raw"} : BackendComplete(u, c)
    \/ \E u \in DOMAIN rows : BackendFail(u)

\* The controller over requests for pages and single-image posts (six
\* steps, no scanning step), with "Process Another URL".
Next ==
    \/ \E u \in Urls \cup {BlankUrl} : SetUrl(u)
    \/ ResetForm
    \/ Core(MaxInFlight)

Spec == Init /\ [][Next]_vars

\* One request for a page or a post: the user never asks for another.
NextOne ==
    \/ \E u \in Urls \cup {BlankUrl} : SetUrl(u)
    \/ \E outcome \in {"resolved", "rejected"} : PostSettles(outcome)
    \/ Core(MaxOverlap)

\* Timers fire and queries answer; the user and the backend owe nothing.
Fairness ==
    /\ WF_vars(SimStart)
    /\ WF_vars(SimWait)
    /\ \A r \in 1..MaxRequests :
         /\ SF_vars(BgTick(r, MaxOverlap))
         /\ SF_vars(InlineTick(r, MaxOverlap))
         /\ WF_vars(\E resp \in Responses(bg[r].url) : BgDeliver(r, resp))
         /\ WF_vars(\E resp \in Responses(inl[r].url) : InlineDeliver(r, resp))

SpecOne == Init /\ [][NextOne]_vars

FairOne == SpecOne /\ Fairness

\* One request for a reel or a long-form video (ten steps).
NextVideo ==
    \/ \E u \in VideoUrls : SetUrl(u)
    \/ SimScan
    \/ Core(MaxOverlap)

SpecVideo == Init /\ [][NextVideo]_vars

\* The timers of the animation fire; the poll loops, the backend and the
\* user owe nothing.
FairAnimation ==
    /\ WF_vars(SimStart)
    /\ WF_vars(SimWait)
    /\ WF_vars(SimScan)

FairVideo == SpecVideo /\ FairAnimation

\* Classification and step generation over every URL of up to MaxUrlLen tokens.
RECURSIVE SeqsUpTo(_)
SeqsUpTo(n) ==
    IF n = 0 THEN {<<>>}
    ELSE LET shorter == SeqsUpTo(n - 1)
         IN shorter \cup {Append(q, t) : q \in shorter, t \in Tokens}

InitSteps ==
    /\ url \in SeqsUpTo(MaxUrlLen)
    /\ isProcessing = FALSE
    /\ contentType = "null"
    /\ currentStep = 0
    /\ steps = <<>>
    /\ scanProgress = 0
    /\ logs = <<>>
    /\ reportData = Null
    /\ backendResponse = Null
    /\ resultsReadyRef = FALSE
    /\ pendingResultsRef = Null
    /\ proc = IdleProc
    /\ bg = [r \in 1..MaxRequests |-> NoLoop]
    /\ inl = [r \in 1..MaxRequests |-> NoLoop]
    /\ nreq = 0
    /\ rows = <<>>
    /\ posts = {}
    /\ hist = NoHist
    /\ sinceReady = 0
    /\ markdown = <<>>
    /\ report = Null

SpecSteps == InitSteps /\ [][Submit]_vars

(***************************************************************************)
(* parseMarkdownReport (lines 125-286)                                     *)
(*                                                                         *)
(* A markdown text is a sequence of lines, each one of:                    *)
(*   heading  "## 1. EXPLANATION", "## 2. EVIDENCE", "## 3. FINAL VERDICT" *)
(*            or "## 4. CONFIDENCE SCORE"                                  *)
(*   pct      "n%"                                                         *)
(*   conf     "Confidence: n%"                                             *)
(*   claim    "### Claim 1: c" followed by "**Status:** v"                 *)
(*   sources  "**Sources:**"                                               *)
(*   src      "- Name - https://v"                                         *)
(*   text     a sentence holding the word v ("plain": none of the words    *)
(*            the parser looks for)                                        *)
(* Numbers between 0 and 1 are kept in ten-thousandths.                    *)
(***************************************************************************)
Tok(t, v, n) == [t |-> t, v |-> v, n |-> n]

SectionNames == {"explanation", "evidence", "verdict", "confidence"}
Percents == {0, 80, 150}
ClaimPercents == {60}
StatusWords == {"TRUE", "FALSE", "MISLEADING", "UNVERIFIED", "true"}
SourceUrls == {"a", "b"}
Words == {"plain", "false", "true"}

MdTokens ==
    {Tok("heading", h, 0) : h \in SectionNames}
    \cup {Tok("pct", "", n) : n \in Percents}
    \cup {Tok("conf", "", n) : n \in ClaimPercents}
    \cup {Tok("claim", w, 0) : w \in StatusWords}
    \cup {Tok("sources", "", 0)}
    \cup {Tok("src", u, 0) : u \in SourceUrls}
    \cup {Tok("text", w, 0) : w \in Words}

\* Lines of reports that are claim blocks with sources only
ClaimTokens ==
    {Tok("claim", "TRUE", 0), Tok("sources", "", 0)}
    \cup {Tok("src", u, 0) : u \in SourceUrls}

IsHeading(tok) == tok.t = "heading"
IsClaim(tok) == tok.t = "claim"
IsBlockEnd(tok) == IsHeading(tok) \/ IsClaim(tok)

HeadingLines == {tok \in MdTokens : IsHeading(tok)}
BlockEndLines == {tok \in MdTokens : IsBlockEnd(tok)}

\* Index of the first line of md at or after position from that satisfies
\* is one of lines, or 0: where a regular expression without the g flag
\* matches.
FirstFrom(md, from, lines) ==
    LET ks == {k \in from..Len(md) : md[k] \in lines}
    IN IF ks = {} THEN 0 ELSE CHOOSE k \in ks : \A j \in ks : k <= j

\* The lines a lazy ([\s\S]*?) captures after line k up to a lookahead such
\* as (?=\n### Claim |\n## |$), which the lines of stops satisfy, when the pattern
\* before it ends inside line k: the newline of line k can start the
\* lookahead, so the capture stops before line k + 1 if that line stops it.
Captured(md, k, stops) ==
    LET e == FirstFrom(md, k + 1, stops)
    IN SubSeq(md, k + 1, IF e = 0 THEN Len(md) ELSE e - 1)

\* The same when the pattern before the capture ends with the newline of
\* line k ("## 3\. FINAL VERDICT\n"): that newline is consumed, the
\* lookahead starts at the newline of line k + 1 at the earliest, and line
\* k + 1 is captured whatever it is.
CapturedSection(md, k) ==
    LET e == FirstFrom(md, k + 2, HeadingLines)
    IN SubSeq(md, k + 1, IF e = 0 THEN Len(md) ELSE e - 1)

\* The status word as the report wrote it.
AsWritten(w) == w

\* String.prototype.toUpperCase on a status word
ToUpperCase(w) == IF w = "true" THEN "TRUE" ELSE w

\* The words, in lower case, that a line holds among those the verdict test
\* looks for with includes()
Mentions(tok) ==
    IF tok.t = "text" THEN (IF tok.v = "plain" THEN {} ELSE {tok.v})
    ELSE IF tok.t = "claim"
    THEN (IF ToUpperCase(tok.v) = "TRUE" THEN {"true"}
          ELSE IF tok.v = "FALSE" THEN {"false"}
          ELSE IF tok.v = "MISLEADING" THEN {"misleading"}
          ELSE {"verified"})
    ELSE {}

TextIncludes(text, w) == \E k \in DOMAIN text : w \in Mentions(text[k])

\* parseSources (lines 134-153): the URLs of the source lines of text
RECURSIVE parseSources(_)
parseSources(text) ==
    IF text = <<>> THEN <<>>
    ELSE (IF Head(text).t = "src" THEN <<Head(text).v>> ELSE <<>>)
         \o parseSources(Tail(text))

NoScore == -1
DefaultConfidence == 8500
UnverifiedConfidence == 5000
FalseFactor == 95
MisleadingFactor == 85
Hundredth == 100

IsSection(name, tok) == tok.t = "heading" /\ tok.v = name
IsExplanation(tok) == IsSection("explanation", tok)
IsEvidence(tok) == IsSection("evidence", tok)
IsVerdict(tok) == IsSection("verdict", tok)
IsConf(tok) == tok.t = "conf"
IsSourcesMark(tok) == tok.t = "sources"

ExplanationLines == {tok \in MdTokens : IsExplanation(tok)}
EvidenceLines == {tok \in MdTokens : IsEvidence(tok)}
VerdictLines == {tok \in MdTokens : IsVerdict(tok)}
ConfLines == {tok \in MdTokens : IsConf(tok)}
SourcesMarks == {tok \in MdTokens : IsSourcesMark(tok)}

\* parseInt(match[1]) / 100
Fraction(n) == n * Hundredth

\* Lines 156-159: the summary, as [present, text]
Summary(md) ==
    LET k == FirstFrom(md, 1, ExplanationLines)
    IN IF k = 0 THEN [present |-> FALSE, text |-> <<>>]
       ELSE [present |-> TRUE, text |-> CapturedSection(md, k)]

\* Lines 161-167: the three patterns tried in turn.  In these texts a
\* percentage follows the words CONFIDENCE SCORE only on the line after
\* the heading, so the first two patterns match at the same places.
AuthenticityScore(md) ==
    LET scored == {k \in 1..(Len(md) - 1) :
                     IsSection("confidence", md[k]) /\ md[k + 1].t = "pct"}
        k1 == IF scored = {} THEN 0
              ELSE CHOOSE k \in scored : \A j \in scored : k <= j
        k3 == FirstFrom(md, 1, ConfLines)
    IN IF k1 # 0 THEN Fraction(md[k1 + 1].n)
       ELSE IF k3 # 0 THEN Fraction(md[k3].n)
       ELSE NoScore

\* Line 170: report.authenticity_score || 0.85
OverallConfidence(score) ==
    IF score = NoScore \/ score = 0 THEN DefaultConfidence ELSE score

\* Lines 172-183
Sentiment(md) ==
    LET k == FirstFrom(md, 1, VerdictLines)
        verdictText == CapturedSection(md, k)
    IN IF k = 0 THEN "none"
       ELSE IF TextIncludes(verdictText, "false")
               \/ TextIncludes(verdictText, "misleading") THEN "negative"
       ELSE IF TextIncludes(verdictText, "true")
               \/ TextIncludes(verdictText, "verified") THEN "positive"
       ELSE "neutral"

\* Lines 193-212: the confidence of a claim of the given status
ClaimConfidence(status, evidenceText, overallConfidence) ==
    LET c == FirstFrom(evidenceText, 1, ConfLines)
    IN IF c # 0 THEN Fraction(evidenceText[c].n)
       ELSE IF status = "TRUE" THEN overallConfidence
       ELSE IF status = "FALSE" THEN (overallConfidence * FalseFactor) \div Hundredth
       ELSE IF status = "MISLEADING"
       THEN (overallConfidence * MisleadingFactor) \div Hundredth
       ELSE UnverifiedConfidence

\* Lines 218-220
ClaimSources(evidenceText) ==
    LET m == FirstFrom(evidenceText, 1, SourcesMarks)
    IN IF m = 0 THEN <<>>
       ELSE parseSources(SubSeq(evidenceText, m + 1, Len(evidenceText)))

\* Lines 188-229: the claim pushed for the block that starts at line k
ClaimAt(md, k, overallConfidence) ==
    LET status == ToUpperCase(md[k].v)
        evidenceText == Captured(md, k, BlockEndLines)
    IN [at |-> k,
        verified |-> (status = "TRUE"),
        status |-> status,
        confidence |-> ClaimConfidence(status, evidenceText, overallConfidence),
        sources |-> ClaimSources(evidenceText)]

\* The while loop of lines 187-242 from line k on
RECURSIVE ClaimsFrom(_, _, _)
ClaimsFrom(md, k, overallConfidence) ==
    IF k > Len(md) THEN <<>>
    ELSE (IF IsClaim(md[k]) THEN <<ClaimAt(md, k, overallConfidence)>> ELSE <<>>)
         \o ClaimsFrom(md, k + 1, overallConfidence)

\* Lines 236-241: forEach source, push unless its url is there already
RECURSIVE AddDeduplicated(_, _)
AddDeduplicated(all, sources) ==
    IF sources = <<>> THEN all
    ELSE AddDeduplicated(
           IF \E k \in DOMAIN all : all[k] = Head(sources)
           THEN all ELSE Append(all, Head(sources)),
           Tail(sources))

RECURSIVE SourcesOfClaims(_, _)
SourcesOfClaims(claims, all) ==
    IF claims = <<>> THEN all
    ELSE SourcesOfClaims(Tail(claims), AddDeduplicated(all, Head(claims).sources))

\* Lines 244-261: with no claim block, the sources of the EVIDENCE section
FallbackSources(md) ==
    LET k == FirstFrom(md, 1, EvidenceLines)
    IN IF k = 0 THEN <<>> ELSE parseSources(CapturedSection(md, k))

\* Lines 263-283: which of the three canned lists
Recommendations(sentiment) ==
    IF sentiment = "negative" THEN "negative"
    ELSE IF sentiment = "neutral" THEN "neutral"
    ELSE "positive"

parseMarkdownReport(md) ==
    LET score == AuthenticityScore(md)
        claims == ClaimsFrom(md, 1, OverallConfidence(score))
        sentiment == Sentiment(md)
    IN [kind |-> "parsed",
        summary |-> Summary(md),
        authenticity_score |-> score,
        sentiment |-> sentiment,
        claims |-> claims,
        recommendations |-> Recommendations(sentiment),
        allSources |-> IF claims = <<>> THEN FallbackSources(md)
                       ELSE SourcesOfClaims(claims, <<>>)]

\* Longest text over all the lines, and over the lines of claim blocks.
MaxDocLen == 3
MaxClaimDocLen == 6

RECURSIVE TextsUpTo(_, _)
TextsUpTo(lines, n) ==
    IF n = 0 THEN {<<>>}
    ELSE LET shorter == TextsUpTo(lines, n - 1)
         IN shorter \cup {Append(q, l) : q \in shorter, l \in lines}

Docs == TextsUpTo(MdTokens, MaxDocLen) \cup TextsUpTo(ClaimTokens, MaxClaimDocLen)

InitParse ==
    /\ url = <<>>
    /\ isProcessing = FALSE
    /\ contentType = "null"
    /\ currentStep = 0
    /\ steps = <<>>
    /\ scanProgress = 0
    /\ logs = <<>>
    /\ reportData = Null
    /\ backendResponse = Null
    /\ resultsReadyRef = FALSE
    /\ pendingResultsRef = Null
    /\ proc = IdleProc
    /\ bg = [r \in 1..MaxRequests |-> NoLoop]
    /\ inl = [r \in 1..MaxRequests |-> NoLoop]
    /\ nreq = 0
    /\ rows = <<>>
    /\ posts = {}
    /\ hist = NoHist
    /\ sinceReady = 0
    /\ markdown \in Docs
    /\ report = Null

\* A call parseMarkdownReport(markdown) returns.
Parse ==
    /\ report = Null
    /\ report' = parseMarkdownReport(markdown)
    /\ UNCHANGED <<uiVars, logs, resultsReadyRef, pendingResultsRef, proc, bg,
                   inl, nreq, rows, posts, hist, sinceReady, markdown>>

SpecParse == InitParse /\ [][Parse]_vars

(***************************************************************************)
(* Properties                                                              *)
(***************************************************************************)
LastLog == IF logs = <<>> THEN Log("", "", "") ELSE logs[Len(logs)]

\* C1: a background loop whose queries never answered a completed or error
\* row sends no query after its attempt number maxAttempts.
C1_NoQueryAfterCeiling ==
    \A r \in 1..MaxRequests :
        (r = nreq /\ hist.bgSeen = "none") => bg[r].attempts <= maxAttempts

\* C2: under fair timers every submit settles: the animation finishes and
\* the final wait resolves, so that processURL returns (with a report
\* published, or with none after logging "compiling the final report").
C2_EventuallySettles == isProcessing ~> (proc.pc = "done")

\* C3: the background loop of a request calls clearInterval exactly once:
\* never twice, and once whenever its timer is off.
C3_StopsExactlyOnce ==
    /\ hist.stops <= 1
    /\ (nreq > 0 /\ ~bg[nreq].active) => hist.stops = 1

\* C4: since the last submit, the results-ready flag and the pending result
\* were written by no background loop but the one of the current request.
C4_NoStaleWriter == hist.writer \in {0, nreq}

\* C5: a submit that starts processing leaves a fresh session: no report, no
\* backend response, flag down, no pending result, step 0, progress 0, a log
\* of this submit's entries only, and newly generated steps, none completed
\* or active.
FreshSession ==
    /\ reportData = Null
    /\ backendResponse = Null
    /\ ~resultsReadyRef
    /\ pendingResultsRef = Null
    /\ currentStep = 0
    /\ scanProgress = 0
    /\ logs # <<>>
    /\ \A k \in DOMAIN logs :
         logs[k].msg \in {"init", "detected", "generated", "sending", "sent"}
    /\ Len(steps) \in {6, 10}
    /\ \A k \in DOMAIN steps : ~steps[k].completed /\ ~steps[k].active

C6_Handoff ==
    /\ (nreq > 0 /\ hist.bgSeen # "none") => ~bg[nreq].active
    /\ resultsReadyRef => (pendingResultsRef # Null \/ hist.lastTerminal = "error")

\* C6 witness: a completed row has been handed off
C6_HandedOff ==
    resultsReadyRef /\ pendingResultsRef # Null /\ hist.bgSeen = "completed"

\* C7: after the background loop of the request has observed an error row
\* its timer is off, the flag is up, the pending result is null, the inline
\* wait sends no query and no report is published.
C7_ErrorYieldsNoReport ==
    (nreq > 0 /\ hist.bgSeen = "error") =>
        /\ ~bg[nreq].active
        /\ resultsReadyRef
        /\ pendingResultsRef = Null
        /\ ~hist.queried
        /\ reportData = Null

\* C8: a request that has settled after an observed error row shows the
\* analysis-failed warning as its latest log entry.
C8_FailureShown ==
    (proc.pc = "done" /\ reportData = Null
       /\ (hist.bgSeen = "error" \/ hist.inlSeen = "error"))
        => LastLog = Log("failed", "", "warning")

\* C9: the animation waits begun after the flag was seen add up to at most
\* 50 check intervals (10 seconds).
C9_FastFinish == sinceReady <= 50 * checkInterval

\* C10: the generated steps are the sequence of the variant, none completed
\* or active.
ExpectedIds(type) ==
    IF type \in {"instagram-reel", "youtube-video"}
    THEN <<"parsing", "identifying", "downloading", "splitting", "ocr",
           "scanning", "captions", "audio", "stt", "report">>
    ELSE IF type = "instagram-post"
    THEN <<"parsing", "identifying", "downloading", "ocr", "captions", "report">>
    ELSE <<"parsing", "identifying", "crawling", "analyzing", "images", "report">>

C10_StepSequences ==
    isProcessing =>
        /\ contentType \in {"instagram-reel", "instagram-post", "youtube-video",
                            "blog-website"}
        /\ StepIds(steps) = ExpectedIds(contentType)
        /\ \A k \in DOMAIN steps : ~steps[k].completed /\ ~steps[k].active

\* C10 witness: a single-image post has been submitted
C10_PostSubmitted ==
    isProcessing /\ contentType = "instagram-post" /\ Len(steps) = 6

\* C11: once a request for which no poll observed a completed or error row
\* has settled (animation finished, polling timed out, no report), the user
\* can try another URL: the reset or the submit is enabled.
C11_CanTryAnother ==
    (proc.pc = "done" /\ reportData = Null /\ nreq < MaxRequests
       /\ hist.bgSeen = "none" /\ hist.inlSeen = "none")
        => (ENABLED ResetForm \/ ENABLED Submit)

\* C12: the queries sent for the current request by its background loop and
\* its inline wait together (each counted by its attempts counter, which
\* counts one per query sent) never exceed the attempt ceiling.
C12_QueryBudget ==
    nreq > 0 => bg[nreq].attempts + inl[nreq].attempts <= maxAttempts

\* C13: every submit puts one POST with the URL on the wire and starts the
\* background loop and the animation; no other step sends a POST; and the
\* step in which the POST's promise resolves or rejects changes nothing of
\* the controller (state, log, refs, animation, poll loops).
C13_PostIgnored ==
    [][/\ (nreq' # nreq) =>
            (url \in posts' /\ hist'.post = "pending"
               /\ bg'[nreq'].active /\ proc'.pc = "start")
       /\ (nreq' = nreq) => posts' \subseteq posts
       /\ (nreq' = nreq /\ hist'.post # hist.post) =>
            UNCHANGED <<uiVars, logs, resultsReadyRef, pendingResultsRef,
                        proc, bg, inl, rows>>]_vars

\* C13 witness: the POST was rejected and the request ended with a report
C13_RejectedYetPublished ==
    hist.post = "rejected" /\ proc.pc = "done" /\ reportData # Null

\* C14: while the URL is empty or blank and no request is being processed,
\* nothing that a submit does happens: no step sets the processing flag,
\* changes the content type, the steps or the request count, sends a POST,
\* starts a poll loop or starts the animation.
C14_BlankSubmitNoOp ==
    [][((\A k \in DOMAIN url : url[k] = " ") /\ ~isProcessing) =>
          /\ UNCHANGED <<isProcessing, contentType, steps, nreq>>
          /\ posts' \subseteq posts
          /\ \A r \in 1..MaxRequests : bg'[r].active => bg[r].active
          /\ (proc'.pc = "start") => (proc.pc = "start")
      ]_vars

\* C14 witness: a blank URL is typed after a finished session was reset
C14_BlankTyped == url = BlankUrl /\ ~isProcessing /\ nreq = 1

Statuses == {"TRUE", "FALSE", "MISLEADING", "UNVERIFIED"}

ClaimLines == {k \in DOMAIN markdown : markdown[k].t = "claim"}

\* C15: once the text is parsed, the report holds exactly one claim per
\* claim block of the text, in the order of the text; the status of each is
\* the status the block states, written in capitals, one of TRUE, FALSE,
\* MISLEADING and UNVERIFIED; and verified is true exactly for status TRUE.
C15_OneClaimPerBlock ==
    report # Null =>
        /\ Len(report.claims) = Cardinality(ClaimLines)
        /\ \A i \in DOMAIN report.claims :
             LET c == report.claims[i]
             IN /\ c.at \in ClaimLines
                /\ Cardinality({k \in ClaimLines : k < c.at}) = i - 1
                /\ c.status \in Statuses
                /\ markdown[c.at].v \in {c.status, "true"}
                /\ (markdown[c.at].v = "true") => (c.status = "TRUE")
                /\ c.verified = (c.status = "TRUE")

C15_TwoClaimsParsed ==
    /\ report # Null
    /\ Len(report.claims) = 2
    /\ markdown[report.claims[1].at].v = "true"
    /\ report.claims[1].verified
    /\ report.claims[2].status = "FALSE"
    /\ ~report.claims[2].verified

\* The lines of the block of the claim that starts at line k: those after
\* it and before the next claim block or section heading.
BlockLines(k) ==
    {j \in DOMAIN markdown :
       /\ j > k
       /\ \A i \in (k + 1)..j : markdown[i].t \notin {"claim", "heading"}}

\* The overall percentages the text states: the lines that follow a
\* CONFIDENCE SCORE heading.
StatedAt ==
    {k \in DOMAIN markdown :
       /\ k > 1
       /\ markdown[k].t = "pct"
       /\ markdown[k - 1] = Tok("heading", "confidence", 0)}

\* C16: when the text states an overall percentage P between 0 and 100, a
\* claim whose block states no percentage of its own has confidence P/100 if
\* its status is TRUE, 0.95 * P/100 if FALSE, 0.85 * P/100 if MISLEADING and
\* 0.50 if UNVERIFIED (here in ten-thousandths).
C16_FallbackFollowsStated ==
    (report # Null /\ StatedAt # {}) =>
        LET P == markdown[CHOOSE k \in StatedAt : \A j \in StatedAt : k <= j].n
        IN P <= 100 =>
             \A i \in DOMAIN report.claims :
                LET c == report.claims[i]
                IN (\A j \in BlockLines(c.at) : markdown[j].t # "conf") =>
                     c.confidence =
                        CASE c.status = "TRUE" -> P * 100
                          [] c.status = "FALSE" -> P * 95
                          [] c.status = "MISLEADING" -> P * 85
                          [] OTHER -> 5000

\* C17: once the text is parsed, no URL occurs twice in allSources, and the
\* URL of every source of every claim occurs in allSources.
C17_SourcesOnce ==
    report # Null =>
        /\ \A i, j \in DOMAIN report.allSources :
             (report.allSources[i] = report.allSources[j]) => (i = j)
        /\ \A i \in DOMAIN report.claims :
             \A k \in DOMAIN report.claims[i].sources :
                \E j \in DOMAIN report.allSources :
                   report.allSources[j] = report.claims[i].sources[k]

NoSection(name) ==
    \A k \in DOMAIN markdown : markdown[k] # Tok("heading", name, 0)

\* Every percentage written as "Confidence: N%" stands in the block of a
\* claim, as that claim's own.
OnlyClaimPercents ==
    \A j \in DOMAIN markdown :
       (markdown[j].t = "conf") => \E k \in ClaimLines : j \in BlockLines(k)

\* C18: every text can be parsed, and once it is parsed a section that the
\* text lacks leaves its field unset: without an EXPLANATION section there
\* is no summary, without a CONFIDENCE SCORE section (percentages standing
\* only in claim blocks) no authenticity_score, without a FINAL VERDICT
\* section no sentiment, without claim blocks no claims, and without source
\* lines no allSources.
C18_AbsentLeavesDefault ==
    /\ (report = Null) => ENABLED Parse
    /\ (report # Null) =>
         /\ NoSection("explanation") => ~report.summary.present
         /\ (NoSection("confidence") /\ OnlyClaimPercents)
               => (report.authenticity_score = NoScore)
         /\ NoSection("verdict") => (report.sentiment = "none")
         /\ (ClaimLines = {}) => (report.claims = <<>>)
         /\ (\A k \in DOMAIN markdown : markdown[k].t # "src")
               => (report.allSources = <<>>)

\* C19: once the text is parsed, authenticity_score, when set, and the
\* confidence of every claim lie between 0 and 1 (here 0 and 10000
\* ten-thousandths).
C19_ScoresInUnitRange ==
    report # Null =>
        /\ (report.authenticity_score # NoScore)
              => (report.authenticity_score \in 0..10000)
        /\ \A i \in DOMAIN report.claims :
              report.claims[i].confidence \in 0..10000

\* C20: once the text is parsed, the report carries the negative list of
\* recommendations exactly when its sentiment is negative, the neutral list
\* exactly when it is neutral, and the positive list exactly when it is
\* positive.
C20_RecommendationsTrackSentiment ==
    report # Null =>
        \A s \in {"negative", "neutral", "positive"} :
           (report.recommendations = s) <=> (report.sentiment = s)

\* The answers of a query that show the row in 'processing'
ProcessingRows(u) ==
    {resp \in Responses(u) : resp.kind = "row" /\ resp.status = "processing"}

\* C21: a task of the background loop in which a query answers a row in
\* 'processing' leaves the loop's timer running while the attempt ceiling
\* is not reached, and when the attempt number is a multiple of LogEvery it
\* appends the informational "analysis in progress" entry to the log.
C21_ProcessingLogged ==
    [][\A r \in 1..MaxRequests : \A resp \in ProcessingRows(bg[r].url) :
          BgDeliver(r, resp) =>
             /\ (bg[r].attempts < maxAttempts) => (bg'[r].active = bg[r].active)
             /\ (bg[r].attempts % LogEvery = 0) =>
                   (logs' # <<>> /\ logs'[Len(logs')] = Log("inProgress", "", "info"))
      ]_vars

\* The answers of a query that carry no row: the 'no row found' error,
\* another error, or an exception
Failures(u) == {resp \in Responses(u) : resp.kind # "row"}

ScanningProgress(st) ==
    LET ks == {k \in DOMAIN st : st[k].id = "scanning"}
    IN IF ks = {} THEN NoProgress ELSE st[CHOOSE k \in ks : TRUE].progress

\* C23: a progress update of the scanning step that finds the results-ready
\* flag up sets the step's progress to 100 and ends the step.
C23_ScanJumps ==
    [][(SimScan /\ resultsReadyRef) =>
          /\ scanProgress' = 100
          /\ ScanningProgress(steps') = 100
          /\ proc'.pc # "scan"
      ]_vars

AllDone(st) ==
    st # <<>> /\ \A k \in DOMAIN st : st[k].completed /\ ~st[k].active

\* C24: whatever the poll loops and the backend do, an animation that has
\* been started returns (the controller goes on to the final check), and
\* in the step in which it returns every step of the request is completed
\* and none is active.
C24_AnimationReturns ==
    /\ (proc.pc = "start") ~> (proc.pc \in {"inline", "done"})
    /\ [][(proc.pc \in {"start", "wait", "scan"} /\ proc'.pc \in {"inline", "done"})
             => AllDone(steps')]_vars

\* C24 witness: the animation of a ten-step request has returned although
\* the results were never ready
C24_ReturnedUnready ==
    proc.pc = "inline" /\ ~resultsReadyRef /\ Len(steps) = 10 /\ AllDone(steps)

\* The animation returns in this step.
AnimationEnds ==
    proc.pc \in {"start", "wait", "scan"} /\ proc'.pc \in {"inline", "done"}

\* C25: in the step in which the animation returns, if the flag is up and
\* a pending result exists, that result (its parsed report, when it wraps
\* one) is published, no inline wait is started and no timer of the
\* request's poll loops is left to send a further query; and the inline
\* wait is started only when no pending result exists.
C25_FinalCheck ==
    [][AnimationEnds =>
          /\ (resultsReadyRef /\ pendingResultsRef # Null) =>
                /\ proc'.pc = "done"
                /\ reportData' = IF pendingResultsRef.kind = "wrapped"
                                 THEN ParsedReport(pendingResultsRef.url)
                                 ELSE pendingResultsRef
                /\ inl' = inl
                /\ ~inl'[nreq].active
                /\ ~bg'[nreq].active
          /\ (proc'.pc = "inline") => (pendingResultsRef = Null)
      ]_vars

\* The fragment a is directly followed by the fragment b somewhere in u.
Follows(u, a, b) == \E k \in 1..(Len(u) - 1) : u[k] = a /\ u[k + 1] = b

Occurs(u, a) == \E k \in DOMAIN u : u[k] = a

\* C26: the content type of a submitted URL is never null and follows the
\* precedence: reel if the URL contains 'instagram.com/reel', else
\* single-image post if it contains 'instagram.com/p', else long-form video
\* if it contains 'youtu.be' or 'youtube.com', else generic web page.
C26_Classification ==
    isProcessing =>
        contentType =
           CASE Follows(url, "instagram.com/", "reel") -> "instagram-reel"
             [] ~Follows(url, "instagram.com/", "reel")
                /\ Follows(url, "instagram.com/", "p") -> "instagram-post"
             [] ~Follows(url, "instagram.com/", "reel")
                /\ ~Follows(url, "instagram.com/", "p")
                /\ (Occurs(url, "youtu.be") \/ Occurs(url, "youtube.com"))
                   -> "youtube-video"
             [] OTHER -> "blog-website"

\* C26 witness: a submitted URL that contains the post pattern before the
\* reel pattern is a reel
C26_ReelOverPost ==
    /\ isProcessing
    /\ url = <<"instagram.com/", "p", "instagram.com/", "reel">>
    /\ contentType = "instagram-reel"

\* C27: a published report is the parser's output for the result text of
\* the completed row of the request's URL, never another value.
C27_PublishedIsParsed ==
    reportData # Null => reportData = ParsedReport(proc.url)

\* The answers of a query on which a poll loop ends: a completed row with
\* its content, or an error row
TerminalRows(u) ==
    {resp \in Responses(u) : HasCompleted(resp) \/ HasError(resp)}

\* A task of a background loop assigns true to the flag in this step.
FlagAssigned ==
    \E r \in 1..MaxRequests : \E resp \in TerminalRows(bg[r].url) : BgDeliver(r, resp)

\* C28: within one request the flag is assigned true at most once (never
\* when it is already true) and only by a task of a background loop; it
\* goes back to false only in a submit; and while it is true the timer of
\* the request's background loop is off, so that the loop starts no query.
C28_FlagOnce ==
    /\ [][/\ FlagAssigned => ~resultsReadyRef
          /\ (~resultsReadyRef /\ resultsReadyRef') => FlagAssigned
          /\ (resultsReadyRef /\ ~resultsReadyRef') => (nreq' = nreq + 1)
         ]_vars
    /\ [](resultsReadyRef => ~bg[nreq].active)

\* The animation is inside iteration proc.i of its loop over the steps.
Walking == proc.pc \in {"wait", "scan"}

\* C29: from the submit to the end of the animation the ids of the step
\* list, in order, stay those generated at the submit, and the current-step
\* index stays or grows by one, within 0..length-1; while step i is walked
\* the current-step index is i, step i is the one active step, every step
\* before it is completed and no step after it is completed.
C29_StepWalk ==
    /\ [](proc.pc \in {"start", "wait", "scan"} =>
            /\ StepIds(steps) = proc.ids
            /\ currentStep \in 0..(Len(steps) - 1))
    /\ [](Walking =>
            /\ currentStep = proc.i
            /\ \A k \in DOMAIN steps :
                 /\ steps[k].active <=> (k - 1 = proc.i)
                 /\ (k - 1 < proc.i) => steps[k].completed
                 /\ (k - 1 > proc.i) => ~steps[k].completed)
    /\ [][(proc.pc \in {"start", "wait", "scan"} /\ nreq' = nreq) =>
            /\ StepIds(steps') = StepIds(steps)
            /\ currentStep' \in {currentStep, currentStep + 1}]_vars

\* C29 witness: the scanning step (index 5 of ten) is being walked
C29_WalkingScan ==
    /\ proc.pc = "scan"
    /\ proc.i = 5
    /\ currentStep = 5
    /\ steps[6].active
    /\ steps[5].completed
    /\ ~steps[7].completed

\* C30: whenever a report is published the step list is not empty and
\* every step is completed and none is active.
C30_ReportAfterAnimation ==
    reportData # Null =>
        /\ steps # <<>>
        /\ \A k \in DOMAIN steps : steps[k].completed /\ ~steps[k].active

\* C30 witness: a report is published for a request whose background loop
\* observed the completed row
C30_PublishedAfterHandoff ==
    /\ reportData # Null
    /\ hist.bgSeen = "completed"
    /\ Len(steps) = 6
    /\ steps[6].completed

====
